---------------------------- MODULE Spec2Model ----------------------------
(***************************************************************************)
(* Model of the matching engine of src/app2.py: similarity (difflib's      *)
(* SequenceMatcher ratio), the amount bucket index, and reconcile, the     *)
(* greedy one-pass assignment of bank rows to internal rows.               *)
(*                                                                         *)
(* Representation.                                                         *)
(*  - A data frame is a sequence of rows; a row's index label is its       *)
(*    position (read_csv gives a RangeIndex), and Transaction_ID/Bank_Ref  *)
(*    are represented by that position.                                    *)
(*  - Date is a whole number of days; Amount is a whole number of          *)
(*    currency units; Vendor_clean is a sequence of characters.            *)
(*  - A float that the code computes by division (the similarity ratio,    *)
(*    the score, the threshold) is an exact fraction <<num, den>> with     *)
(*    den > 0.                                                             *)
(***************************************************************************)
EXTENDS Integers, Sequences, FiniteSets

(***************************************************************************)
(* Bounds of the model and the sets the inputs are drawn from.             *)
(* internal_df and bank_df are any sequences of at most MaxInternal and    *)
(* MaxBank rows of the sets below (a row may occur twice).  The amounts    *)
(* cover: a negative amount, -1 (int_amt + 1 = 0), zero, a positive        *)
(* amount; bank amounts in the same and in the neighbouring buckets, on a  *)
(* half-way value (5, 15), at equal distance on both sides of 10, and 20   *)
(* away from -5.  The vendors give the similarities 1 and 4/5.             *)
(***************************************************************************)
MaxInternal == 2
MaxBank == 2

InternalRows ==
  { [Date |-> 0, Amount |-> -5, Vendor_clean |-> <<"a", "b">>],
    [Date |-> 0, Amount |-> -1, Vendor_clean |-> <<"a", "b">>],
    [Date |-> 0, Amount |-> 0,  Vendor_clean |-> <<"a", "b">>],
    [Date |-> 0, Amount |-> 10, Vendor_clean |-> <<"a", "b">>],
    [Date |-> 0, Amount |-> 10, Vendor_clean |-> <<"a", "b", "c">>] }

BankRows ==
  { [Date |-> 0, Amount |-> 4,  Vendor_clean |-> <<"a", "b">>],
    [Date |-> 1, Amount |-> 5,  Vendor_clean |-> <<"a", "b">>],
    [Date |-> 0, Amount |-> 15, Vendor_clean |-> <<"a", "b">>] }

DateTols == {0, 1}
AmountTols == {0, 50}
SimThresholds == { <<3, 4>>, <<1, 1>> }

SeqsUpTo(S, n) == UNION { [1..m -> S] : m \in 0..n }

None == [none |-> TRUE]

(***************************************************************************)
(* Exact fractions <<num, den>>, den > 0.                                  *)
(***************************************************************************)
Abs(x) == IF x < 0 THEN -x ELSE x

FracGT(x, y) == x[1] * y[2] > y[1] * x[2]

FracGE(x, y) == x[1] * y[2] >= y[1] * x[2]

(***************************************************************************)
(* similarity(a, b) = SequenceMatcher(None, a, b).ratio()                  *)
(*   = 2 * M / (len(a) + len(b)), and 1.0 when both are empty, where M is  *)
(* the total size of the matching blocks: the longest common block (the    *)
(* one starting earliest in a, then earliest in b), then recursively the   *)
(* pieces to its left and to its right.                                    *)
(***************************************************************************)
RECURSIVE CommonLen(_, _, _, _, _, _)
CommonLen(a, b, i, j, ahi, bhi) ==
  IF i > ahi \/ j > bhi \/ a[i] # b[j] THEN 0
  ELSE 1 + CommonLen(a, b, i + 1, j + 1, ahi, bhi)

LongestMatch(a, b, alo, ahi, blo, bhi) ==
  LET blocks == { <<i, j, CommonLen(a, b, i, j, ahi, bhi)>> :
                    i \in alo..ahi, j \in blo..bhi }
      Better(x, y) == \/ x[3] > y[3]
                      \/ x[3] = y[3] /\ x[1] < y[1]
                      \/ x[3] = y[3] /\ x[1] = y[1] /\ x[2] <= y[2]
  IN IF blocks = {} THEN <<alo, blo, 0>>
     ELSE CHOOSE x \in blocks : \A y \in blocks : Better(x, y)

RECURSIVE MatchingSize(_, _, _, _, _, _)
MatchingSize(a, b, alo, ahi, blo, bhi) ==
  LET m == LongestMatch(a, b, alo, ahi, blo, bhi)
  IN IF m[3] = 0 THEN 0
     ELSE m[3] + MatchingSize(a, b, alo, m[1] - 1, blo, m[2] - 1)
               + MatchingSize(a, b, m[1] + m[3], ahi, m[2] + m[3], bhi)

similarity(a, b) ==
  IF Len(a) + Len(b) = 0 THEN <<1, 1>>
  ELSE <<2 * MatchingSize(a, b, 1, Len(a), 1, Len(b)), Len(a) + Len(b)>>

(***************************************************************************)
(* int(round(amount / 10)): Python rounds a half to the even neighbour.    *)
(***************************************************************************)
BucketKeyTruncated(amount) ==
  IF amount >= 0 THEN amount \div 10 ELSE -((-amount) \div 10)

BucketKey(amount) ==
  LET q == amount \div 10
      r == amount % 10
  IN IF r < 5 THEN q
     ELSE IF r > 5 THEN q + 1
     ELSE IF q % 2 = 0 THEN q ELSE q + 1


(***************************************************************************)
(* State of one reconcile call.  pc is the position in the function:       *)
(* "index" before the bucket loop (lines 25-28), "loop" at the head of the *)
(* loop over internal_df (line 30) with i the next row, "done" after the   *)
(* return (lines 70-74), "raised" when an exception left the function.     *)
(***************************************************************************)
VARIABLES internal_df, bank_df, date_tol_days, amount_tol, sim_threshold,
          pc, i, bank_by_amount, bank_idx_used, matches,
          unmatched_internal, unmatched_bank

vars == <<internal_df, bank_df, date_tol_days, amount_tol, sim_threshold,
          pc, i, bank_by_amount, bank_idx_used, matches,
          unmatched_internal, unmatched_bank>>

inputs == <<internal_df, bank_df, date_tol_days, amount_tol, sim_threshold>>

Index(df) == [n \in 1..Len(df) |-> n]

(***************************************************************************)
(* Lines 25-28: the dict from bucket key to the bank positions of that     *)
(* bucket, in bank order.                                                  *)
(***************************************************************************)
AmountBuckets(bank) ==
  [key \in { BucketKey(bank[j].Amount) : j \in 1..Len(bank) } |->
     SelectSeq(Index(bank), LAMBDA j : BucketKey(bank[j].Amount) = key)]

(* bank_by_amount.get(k, []) *)
Get(buckets, k) == IF k \in DOMAIN buckets THEN buckets[k] ELSE <<>>

(* Line 34 *)
candidate_keys(key) == <<key - 1, key, key + 1>>

(* Lines 37-38: the bank positions in the order the two loops visit them. *)
SearchOrder(buckets, int_amt) ==
  LET ks == candidate_keys(BucketKey(int_amt))
  IN Get(buckets, ks[1]) \o Get(buckets, ks[2]) \o Get(buckets, ks[3])

(***************************************************************************)
(* Line 44: score = sim - (amt_diff / (int_amt + 1)) * 0.25, defined when  *)
(* int_amt + 1 # 0 (Python raises ZeroDivisionError otherwise).            *)
(***************************************************************************)
Score(sim, amt_diff, int_amt) ==
  LET n == sim[1] * 4 * (int_amt + 1) - amt_diff * sim[2]
      d == sim[2] * 4 * (int_amt + 1)
  IN IF d < 0 THEN <<-n, -d>> ELSE <<n, d>>

(***************************************************************************)
(* The pieces of the inner loop.  Where two definitions of one piece       *)
(* follow each other, the last is the code's; the ones before it are       *)
(* faulty variants, kept to show that the properties below tell them from  *)
(* the code.                                                               *)
(***************************************************************************)
(* Line 39: a bank position already matched is skipped. *)
SkipNothing(j, used) == FALSE

Skipped(j, used) == j \in used

(* Line 41 *)
DateEligible(int_date, bank_date, date_tol) ==
  Abs(int_date - bank_date) <= date_tol

(* Line 45: when the candidate replaces the running best. *)
ReplacesIgnoringThreshold(score, best_score, sim, sim_thr) ==
  FracGT(score, best_score)

ReplacesOnTie(score, best_score, sim, sim_thr) ==
  FracGE(score, best_score) /\ FracGE(sim, sim_thr)

Replaces(score, best_score, sim, sim_thr) ==
  FracGT(score, best_score) /\ FracGE(sim, sim_thr)

(***************************************************************************)
(* Lines 39-47: the body of the inner loop for bank position j.  acc holds *)
(* best_score, best_match and whether the division of line 44 has raised.  *)
(* amt_tol is the amount_tol argument, which the body never reads.         *)
(***************************************************************************)
ConsiderWithinAmountTol(acc, row, j, bank, used, date_tol, amt_tol, sim_thr) ==
  LET b == bank[j]
      int_amt == row.Amount
      sim == similarity(row.Vendor_clean, b.Vendor_clean)
      amt_diff == Abs(int_amt - b.Amount)
      score == Score(sim, amt_diff, int_amt)
  IN IF acc.raised \/ Skipped(j, used) THEN acc
     ELSE IF DateEligible(row.Date, b.Date, date_tol)
       THEN IF int_amt + 1 = 0
              THEN [acc EXCEPT !.raised = TRUE]
            ELSE IF Replaces(score, acc.best_score, sim, sim_thr)
                    /\ amt_diff <= amt_tol
              THEN [acc EXCEPT !.best_score = score,
                               !.best_match = [j |-> j, sim |-> sim,
                                               amt_diff |-> amt_diff]]
            ELSE acc
     ELSE acc

Consider(acc, row, j, bank, used, date_tol, amt_tol, sim_thr) ==
  LET b == bank[j]
      int_amt == row.Amount
      sim == similarity(row.Vendor_clean, b.Vendor_clean)
      amt_diff == Abs(int_amt - b.Amount)
      score == Score(sim, amt_diff, int_amt)
  IN IF acc.raised \/ Skipped(j, used) THEN acc
     ELSE IF DateEligible(row.Date, b.Date, date_tol)
       THEN IF int_amt + 1 = 0
              THEN [acc EXCEPT !.raised = TRUE]
            ELSE IF Replaces(score, acc.best_score, sim, sim_thr)
              THEN [acc EXCEPT !.best_score = score,
                               !.best_match = [j |-> j, sim |-> sim,
                                               amt_diff |-> amt_diff]]
            ELSE acc
     ELSE acc

RECURSIVE Scan(_, _, _, _, _, _, _, _)
Scan(acc, order, row, bank, used, date_tol, amt_tol, sim_thr) ==
  IF order = <<>> THEN acc
  ELSE Scan(Consider(acc, row, Head(order), bank, used, date_tol, amt_tol, sim_thr),
            Tail(order), row, bank, used, date_tol, amt_tol, sim_thr)

(* Lines 31-47 for one internal row: line 35 sets best_score, best_match. *)
BestMatch(row, bank, buckets, used, date_tol, amt_tol, sim_thr) ==
  Scan([best_score |-> <<0, 1>>, best_match |-> None, raised |-> FALSE],
       SearchOrder(buckets, row.Amount), row, bank, used,
       date_tol, amt_tol, sim_thr)

(* Lines 52-64: the match record of internal position n and best_match bm. *)
MatchRecord(internal, bank, n, bm) ==
  [Transaction_ID    |-> n,
   Internal_Date     |-> internal[n].Date,
   Internal_Amount   |-> internal[n].Amount,
   Bank_Ref          |-> bm.j,
   Bank_Date         |-> bank[bm.j].Date,
   Bank_Amount       |-> bank[bm.j].Amount,
   Vendor_similarity |-> bm.sim,
   Amount_diff       |-> bm.amt_diff,
   MatchType         |-> "Fuzzy"]

(* Line 68 *)
UnmatchedBankAll(bank, used) == Index(bank)

UnmatchedBank(bank, used) ==
  SelectSeq(Index(bank), LAMBDA j : j \notin used)

(***************************************************************************)
(* The actions.                                                            *)
(***************************************************************************)
Init ==
  /\ internal_df \in SeqsUpTo(InternalRows, MaxInternal)
  /\ bank_df \in SeqsUpTo(BankRows, MaxBank)
  /\ date_tol_days \in DateTols
  /\ amount_tol \in AmountTols
  /\ sim_threshold \in SimThresholds
  /\ pc = "index"
  /\ i = 1
  /\ bank_by_amount = <<>>
  /\ bank_idx_used = {}
  /\ matches = <<>>
  /\ unmatched_internal = <<>>
  /\ unmatched_bank = <<>>

(* Lines 25-28 *)
BuildBuckets ==
  /\ pc = "index"
  /\ bank_by_amount' = AmountBuckets(bank_df)
  /\ pc' = "loop"
  /\ UNCHANGED <<inputs, i, bank_idx_used, matches,
                 unmatched_internal, unmatched_bank>>

Best ==
  BestMatch(internal_df[i], bank_df, bank_by_amount, bank_idx_used,
            date_tol_days, amount_tol, sim_threshold)

(* Lines 30-64, an iteration that finds a best match. *)
MatchRow ==
  /\ pc = "loop"
  /\ i <= Len(internal_df)
  /\ ~Best.raised
  /\ Best.best_match # None
  /\ bank_idx_used' = bank_idx_used \cup {Best.best_match.j}
  /\ matches' = Append(matches,
                       MatchRecord(internal_df, bank_df, i, Best.best_match))
  /\ i' = i + 1
  /\ UNCHANGED <<inputs, pc, bank_by_amount, unmatched_internal, unmatched_bank>>

(* Lines 30-49 and 65-66, an iteration that finds none. *)
UnmatchedRow ==
  /\ pc = "loop"
  /\ i <= Len(internal_df)
  /\ ~Best.raised
  /\ Best.best_match = None
  /\ unmatched_internal' = Append(unmatched_internal, i)
  /\ i' = i + 1
  /\ UNCHANGED <<inputs, pc, bank_by_amount, bank_idx_used, matches,
                 unmatched_bank>>

(* Line 44 raising ZeroDivisionError: the call ends without a result. *)
RaiseZeroDivision ==
  /\ pc = "loop"
  /\ i <= Len(internal_df)
  /\ Best.raised
  /\ pc' = "raised"
  /\ UNCHANGED <<inputs, i, bank_by_amount, bank_idx_used, matches,
                 unmatched_internal, unmatched_bank>>

(* Lines 68-74 *)
Return ==
  /\ pc = "loop"
  /\ i > Len(internal_df)
  /\ unmatched_bank' = UnmatchedBank(bank_df, bank_idx_used)
  /\ pc' = "done"
  /\ UNCHANGED <<inputs, i, bank_by_amount, bank_idx_used, matches,
                 unmatched_internal>>

Next == BuildBuckets \/ MatchRow \/ UnmatchedRow \/ RaiseZeroDivision \/ Return

Spec == Init /\ [][Next]_vars


(***************************************************************************)
(* reconcile as a function of its arguments: the result of running the     *)
(* loop of lines 30-66 from row n on, then lines 68-74.                    *)
(***************************************************************************)
RECURSIVE RunLoop(_, _, _, _, _, _, _, _, _, _)
RunLoop(internal, bank, buckets, n, used, ms, um, date_tol, amt_tol, sim_thr) ==
  IF n > Len(internal)
    THEN [pc |-> "done", matches |-> ms, unmatched_internal |-> um,
          unmatched_bank |-> UnmatchedBank(bank, used)]
  ELSE LET best == BestMatch(internal[n], bank, buckets, used,
                             date_tol, amt_tol, sim_thr)
       IN IF best.raised
            THEN [pc |-> "raised", matches |-> ms, unmatched_internal |-> um,
                  unmatched_bank |-> <<>>]
          ELSE IF best.best_match # None
            THEN RunLoop(internal, bank, buckets, n + 1,
                         used \cup {best.best_match.j},
                         Append(ms, MatchRecord(internal, bank, n, best.best_match)),
                         um, date_tol, amt_tol, sim_thr)
          ELSE RunLoop(internal, bank, buckets, n + 1, used, ms,
                       Append(um, n), date_tol, amt_tol, sim_thr)

reconcile(internal, bank, date_tol, amt_tol, sim_thr) ==
  RunLoop(internal, bank, AmountBuckets(bank), 1, {}, <<>>, <<>>,
          date_tol, amt_tol, sim_thr)

-----------------------------------------------------------------------------
(***************************************************************************)
(* Vocabulary of the properties, stated on the inputs and the outputs and  *)
(* not through the scan above.                                             *)
(***************************************************************************)
Range(f) == { f[x] : x \in DOMAIN f }

MatchedInternal == { matches[x].Transaction_ID : x \in DOMAIN matches }

MatchedBank == { matches[x].Bank_Ref : x \in DOMAIN matches }

(* Row n has been through the loop body. *)
Processed(n) == n \in 1..Len(internal_df) /\ n < i

(* The bank positions used when row n is processed. *)
UsedBefore(n) ==
  { matches[x].Bank_Ref :
      x \in { y \in DOMAIN matches : matches[y].Transaction_ID < n } }

SimOf(n, j) ==
  similarity(internal_df[n].Vendor_clean, bank_df[j].Vendor_clean)

AmtDiffOf(n, j) == Abs(internal_df[n].Amount - bank_df[j].Amount)

DateDiffOf(n, j) == Abs(internal_df[n].Date - bank_df[j].Date)

(* The bucket of bank row j relative to the bucket of internal row n. *)
BucketOffset(n, j) ==
  BucketKey(bank_df[j].Amount) - BucketKey(internal_df[n].Amount)

(***************************************************************************)
(* Bank row j is a qualifying candidate of internal row n: it lies in      *)
(* bucket k-1, k or k+1, is within the date tolerance and has similarity   *)
(* at or above the threshold.                                              *)
(***************************************************************************)
Qualifies(n, j) ==
  /\ BucketOffset(n, j) \in {-1, 0, 1}
  /\ DateDiffOf(n, j) <= date_tol_days
  /\ FracGE(SimOf(n, j), sim_threshold)

Candidates(n) ==
  { j \in 1..Len(bank_df) : j \notin UsedBefore(n) /\ Qualifies(n, j) }

(* j1 comes before j2 in the search order of row n. *)
Precedes(n, j1, j2) ==
  \/ BucketOffset(n, j1) < BucketOffset(n, j2)
  \/ BucketOffset(n, j1) = BucketOffset(n, j2) /\ j1 < j2

(* The score the code computes, for a row whose amount is not -1. *)
CodeScore(n, j) == Score(SimOf(n, j), AmtDiffOf(n, j), internal_df[n].Amount)

(* sim - (|t.Amount - b.Amount| / (|t.Amount| + 1)) * 0.25 *)
AbsScore(n, j) ==
  LET sim == SimOf(n, j)
  IN <<sim[1] * 4 * (Abs(internal_df[n].Amount) + 1) - AmtDiffOf(n, j) * sim[2],
       sim[2] * 4 * (Abs(internal_df[n].Amount) + 1)>>

FracEQ(x, y) == x[1] * y[2] = y[1] * x[2]

-----------------------------------------------------------------------------
(***************************************************************************)
(* C1: at every point of a run and in its result, no bank record appears   *)
(* in more than one match, and the used set is exactly the set of bank     *)
(* positions that the matches emitted so far hold, so a used position is   *)
(* never selected for a later internal transaction.                        *)
(***************************************************************************)
C1_BankMatchedAtMostOnce ==
  /\ \A x, y \in DOMAIN matches :
       x # y => matches[x].Bank_Ref # matches[y].Bank_Ref
  /\ bank_idx_used = MatchedBank

(* Two matches, where the bank row of the first qualified for the second   *)
(* internal row with a higher score than the row the second one got.       *)
C1_Witness ==
  /\ Len(matches) = 2
  /\ Qualifies(matches[2].Transaction_ID, matches[1].Bank_Ref)
  /\ FracGT(CodeScore(matches[2].Transaction_ID, matches[1].Bank_Ref),
            CodeScore(matches[2].Transaction_ID, matches[2].Bank_Ref))

(***************************************************************************)
(* C2: in the result of a run, |matches| + |unmatched_internal| =          *)
(* |internal| and |matches| + |unmatched_bank| = |bank|; every internal    *)
(* row is in exactly one of matched and unmatched-internal, every bank row *)
(* in exactly one of matched and unmatched-bank.                           *)
(***************************************************************************)
C2_OutputsPartitionInputs ==
  pc = "done" =>
    /\ Len(matches) + Len(unmatched_internal) = Len(internal_df)
    /\ Len(matches) + Len(unmatched_bank) = Len(bank_df)
    /\ \A n \in 1..Len(internal_df) :
         (n \in MatchedInternal) # (n \in Range(unmatched_internal))
    /\ \A j \in 1..Len(bank_df) :
         (j \in MatchedBank) # (j \in Range(unmatched_bank))

(* A finished run with a match, an unmatched internal row and an unmatched *)
(* bank row.                                                               *)
C2_Witness ==
  /\ pc = "done"
  /\ Len(matches) >= 1
  /\ Len(unmatched_internal) >= 1
  /\ Len(unmatched_bank) >= 1

(***************************************************************************)
(* C3: every match pairs an internal and a bank row whose similarity is at *)
(* least sim_threshold and whose dates differ by at most date_tol_days     *)
(* days; the similarity and the dates in the match are those of the rows.  *)
(***************************************************************************)
C3_MatchesPassBothGates ==
  \A x \in DOMAIN matches :
    LET m == matches[x]
    IN /\ m.Vendor_similarity = SimOf(m.Transaction_ID, m.Bank_Ref)
       /\ m.Internal_Date = internal_df[m.Transaction_ID].Date
       /\ m.Bank_Date = bank_df[m.Bank_Ref].Date
       /\ FracGE(m.Vendor_similarity, sim_threshold)
       /\ Abs(m.Internal_Date - m.Bank_Date) <= date_tol_days

(* A match that was made although an unused bank row of the searched       *)
(* buckets had a higher score: that row failed a gate.                     *)
C3_Witness ==
  \E x \in DOMAIN matches :
    LET n == matches[x].Transaction_ID
    IN \E j \in 1..Len(bank_df) \ UsedBefore(n) :
         /\ BucketOffset(n, j) \in {-1, 0, 1}
         /\ ~Qualifies(n, j)
         /\ FracGT(CodeScore(n, j), CodeScore(n, matches[x].Bank_Ref))

(***************************************************************************)
(* C4: reconcile is total: for every signed internal amount the score is   *)
(* computed with a denominator of at least 1, so a run never ends in a     *)
(* division error.                                                         *)
(***************************************************************************)
C4_NeverRaises == pc # "raised"

(***************************************************************************)
(* C5: when two internal rows both qualify for the same bank row, which is *)
(* the only qualifying candidate of either, the earlier internal row is    *)
(* matched to it and the later one is recorded unmatched.                  *)
(***************************************************************************)
C5_EarlierInternalWins ==
  \A n1, n2 \in 1..Len(internal_df) : \A j \in 1..Len(bank_df) :
    ( /\ n1 < n2
      /\ Processed(n1) /\ Processed(n2)
      /\ Candidates(n1) = {j}
      /\ Qualifies(n2, j)
      /\ Candidates(n2) \subseteq {j} )
    => /\ \E x \in DOMAIN matches :
            matches[x].Transaction_ID = n1 /\ matches[x].Bank_Ref = j
       /\ n2 \in Range(unmatched_internal)

(***************************************************************************)
(* C6: the bank row of a match is a qualifying candidate, no qualifying    *)
(* candidate has a greater score, and every qualifying candidate that      *)
(* comes before it in the search order (bucket k-1, then k, then k+1, bank *)
(* order within a bucket) has a strictly smaller score: of equal scores    *)
(* the first encountered wins.                                             *)
(***************************************************************************)
C6_FirstOfEqualScoresWins ==
  \A x \in DOMAIN matches :
    LET n == matches[x].Transaction_ID
        j == matches[x].Bank_Ref
    IN /\ j \in Candidates(n)
       /\ \A c \in Candidates(n) \ {j} :
            IF Precedes(n, c, j)
              THEN FracGT(CodeScore(n, j), CodeScore(n, c))
            ELSE FracGE(CodeScore(n, j), CodeScore(n, c))

(* A match whose bank row tied with a candidate that is earlier in bank    *)
(* order but lies in a later bucket.                                       *)
C6_Witness ==
  \E x \in DOMAIN matches :
    LET n == matches[x].Transaction_ID
        j == matches[x].Bank_Ref
    IN \E c \in Candidates(n) :
         /\ c < j
         /\ BucketOffset(n, c) > BucketOffset(n, j)
         /\ FracEQ(CodeScore(n, c), CodeScore(n, j))

(***************************************************************************)
(* C7: amount_tol is inert: a run with any other amount_tol, and the same  *)
(* internal_df, bank_df, date_tol_days and sim_threshold, ends the same    *)
(* way with the same matches, unmatched-internal and unmatched-bank.       *)
(***************************************************************************)
C7_AmountTolInert ==
  pc \in {"done", "raised"} =>
    \A tol \in AmountTols :
      reconcile(internal_df, bank_df, date_tol_days, tol, sim_threshold)
        = [pc |-> pc, matches |-> matches,
           unmatched_internal |-> unmatched_internal,
           unmatched_bank |-> unmatched_bank]

(* A finished run with a match whose amount difference exceeds amount_tol. *)
C7_Witness ==
  /\ pc = "done"
  /\ \E x \in DOMAIN matches : matches[x].Amount_diff > amount_tol

(***************************************************************************)
(* C8: an internal row is recorded unmatched only if it has no unused      *)
(* qualifying candidate when it is processed; whenever it has one,         *)
(* whatever the score, a match is emitted for it.                          *)
(***************************************************************************)
C8_UnmatchedOnlyWithoutCandidate ==
  \A n \in 1..Len(internal_df) :
    Processed(n) =>
      /\ n \in Range(unmatched_internal) => Candidates(n) = {}
      /\ Candidates(n) # {} => n \in MatchedInternal

(***************************************************************************)
(* C9: the bank row of a match has the maximal value of                    *)
(* sim - (|t.Amount - b.Amount| / (|t.Amount| + 1)) * 0.25 among the       *)
(* unused qualifying candidates, for any signed t.Amount.                  *)
(***************************************************************************)
C9_ChosenHasMaximalScore ==
  \A x \in DOMAIN matches :
    LET n == matches[x].Transaction_ID
    IN \A c \in Candidates(n) :
         FracGE(AbsScore(n, matches[x].Bank_Ref), AbsScore(n, c))

(***************************************************************************)
(* C10: every match has Amount_diff = |Internal_Amount - Bank_Amount|      *)
(* strictly below 20, whatever amount_tol is: a bank row whose amount      *)
(* differs from the internal amount by 20 or more is never matched to it.  *)
(***************************************************************************)
C10_AmountDiffBelowTwenty ==
  \A x \in DOMAIN matches :
    LET m == matches[x]
    IN /\ m.Internal_Amount = internal_df[m.Transaction_ID].Amount
       /\ m.Bank_Amount = bank_df[m.Bank_Ref].Amount
       /\ m.Amount_diff = Abs(m.Internal_Amount - m.Bank_Amount)
       /\ m.Amount_diff < 20

(* A match made while an unused bank row, within the date tolerance, at or *)
(* above the similarity threshold and within amount_tol of the internal    *)
(* amount, differed from it by 20 or more.                                 *)
C10_Witness ==
  \E x \in DOMAIN matches :
    LET n == matches[x].Transaction_ID
    IN \E j \in 1..Len(bank_df) \ UsedBefore(n) :
         /\ AmtDiffOf(n, j) >= 20
         /\ AmtDiffOf(n, j) <= amount_tol
         /\ DateDiffOf(n, j) <= date_tol_days
         /\ FracGE(SimOf(n, j), sim_threshold)

=============================================================================
